---- MODULE Spec2Model ----
(***************************************************************************)
(* The row/column data marshalling layer of the MongoDB ODBC driver:       *)
(*   core/src/query.rs       the cursor over a live result set             *)
(*   core/src/mock_query.rs  the vector-backed cursor used by the tests    *)
(*   odbc/src/api/data.rs    value coercion and the output buffer writers  *)
(* Text is a sequence of Unicode code points, a byte or UTF-16 buffer is a *)
(* sequence of units.  A floating point number is kept in tenths.          *)
(***************************************************************************)
EXTENDS Integers, Sequences, FiniteSets, TLC

\* ------------------------------------------------------------------ bounds
MaxRows == 3
MaxBuf == 3
MaxPieces == 2
MaxExtraFetch == 2
MaxExecutes == 1
MaxFaults == 1
WholeBuf == 64
MaxColumns == 3
MaxHighWord == 1
MaxColIndex == 2
MaxCapacity == 2

\* ------------------------------------------------------- program constants
NULL_DATA == -1
SMALLINT_MOD == 65536
HALFWORD == 65536

\* --------------------------------------------------------------- text
\* the code points of the characters the model writes
Ord ==
  ("\"" :> 34) @@ ("$" :> 36) @@ ("-" :> 45) @@ ("." :> 46) @@ ("0" :> 48)
  @@ ("1" :> 49) @@ ("2" :> 50) @@ ("3" :> 51) @@ ("4" :> 52) @@ ("5" :> 53)
  @@ ("6" :> 54) @@ ("7" :> 55) @@ ("8" :> 56) @@ ("9" :> 57) @@ (":" :> 58)
  @@ ("D" :> 68) @@ ("I" :> 73) @@ ("K" :> 75) @@ ("L" :> 76) @@ ("N" :> 78)
  @@ ("U" :> 85) @@ ("a" :> 97) @@ ("b" :> 98) @@ ("c" :> 99) @@ ("d" :> 100)
  @@ ("e" :> 101) @@ ("f" :> 102) @@ ("g" :> 103) @@ ("l" :> 108) @@ ("m" :> 109)
  @@ ("n" :> 110) @@ ("o" :> 111) @@ ("r" :> 114) @@ ("s" :> 115) @@ ("t" :> 116)
  @@ ("u" :> 117) @@ ("x" :> 120) @@ ("y" :> 121) @@ ("{" :> 123) @@ ("}" :> 125)
  @@ ("," :> 44) @@ ("[" :> 91) @@ ("]" :> 93) @@ ("i" :> 105) @@ ("h" :> 104)
  @@ (" " :> 32) @@ ("w" :> 119) @@ ("!" :> 33)

Str(cs) == [i \in 1..Len(cs) |-> Ord[cs[i]]]

RECURSIVE Flatten(_)
Flatten(ss) == IF ss = <<>> THEN <<>> ELSE Head(ss) \o Flatten(Tail(ss))

Take(s, n) == SubSeq(s, 1, n)

Min(a, b) == IF a < b THEN a ELSE b

IsPrefix(p, s) == Len(p) <= Len(s) /\ Take(s, Len(p)) = p

\* str::bytes(): the UTF-8 encoding of one code point
Utf8Char(cp) ==
  IF cp < 128 THEN <<cp>>
  ELSE IF cp < 2048 THEN <<192 + (cp \div 64), 128 + (cp % 64)>>
  ELSE IF cp < 65536 THEN <<224 + (cp \div 4096), 128 + ((cp \div 64) % 64), 128 + (cp % 64)>>
  ELSE <<240 + (cp \div 262144), 128 + ((cp \div 4096) % 64),
         128 + ((cp \div 64) % 64), 128 + (cp % 64)>>

bytes(message) == Flatten([i \in 1..Len(message) |-> Utf8Char(message[i])])

\* str::encode_utf16(): one unit, or a surrogate pair above the BMP
Utf16Char(cp) ==
  IF cp < 65536 THEN <<cp>>
  ELSE <<55296 + ((cp - 65536) \div 1024), 56320 + ((cp - 65536) % 1024)>>

encode_utf16(message) == Flatten([i \in 1..Len(message) |-> Utf16Char(message[i])])

\* --------------------------------------------------------------- bson::Bson
Bson(type, n, s) == [type |-> type, n |-> n, s |-> s]

BsonNull == Bson("Null", 0, <<>>)
BsonUndefined == Bson("Undefined", 0, <<>>)
BsonString(s) == Bson("String", 0, s)
BsonInt32(i) == Bson("Int32", i, <<>>)
BsonInt64(i) == Bson("Int64", i, <<>>)
BsonDouble(tenths) == Bson("Double", tenths, <<>>)
BsonBoolean(b) == Bson("Boolean", IF b THEN 1 ELSE 0, <<>>)
BsonDateTime(millis) == Bson("DateTime", millis, <<>>)

\* an Int64, or the i64 milliseconds of a DateTime, beyond 32 bits: the value
\* hi * 2^32 + lo1 * 2^16 + lo0, hi the signed high word, lo1 and lo0 the two
\* unsigned 16-bit halves of the low word
BsonInt64Wide(hi, lo1, lo0) == Bson("Int64", 0, <<hi, lo1, lo0>>)
BsonDateTimeWide(hi, lo1, lo0) == Bson("DateTime", 0, <<hi, lo1, lo0>>)
BsonMaxKey == Bson("MaxKey", 0, <<>>)
BsonMinKey == Bson("MinKey", 0, <<>>)
\* an ObjectId by its 24 hexadecimal digits, an array by its Int32 elements
BsonObjectId(hex) == Bson("ObjectId", 0, hex)
BsonArray(items) == Bson("Array", 0, items)

\* bson::Document: top-level key -> value; a value that is itself a document
\* carries its fields
SubDoc(fields) == [isdoc |-> TRUE, fields |-> fields]
NotADoc == [isdoc |-> FALSE, fields |-> <<>>]

\* ------------------------------------------------------ column metadata
\* sorted by (table_name, col_name)
resultset_metadata ==
  << [table_name |-> "a", col_name |-> "b"],
     [table_name |-> "test", col_name |-> "b"],
     [table_name |-> "test", col_name |-> "bool"],
     [table_name |-> "test", col_name |-> "datetime"],
     [table_name |-> "test", col_name |-> "f64"],
     [table_name |-> "test", col_name |-> "i64"],
     [table_name |-> "test", col_name |-> "max_key"],
     [table_name |-> "test", col_name |-> "null"],
     [table_name |-> "test", col_name |-> "string"],
     [table_name |-> "test", col_name |-> "undefined"],
     [table_name |-> "test", col_name |-> "unicode"],
     [table_name |-> "test", col_name |-> "unit_str"] >>

NCols == Len(resultset_metadata)

\* u16 column numbers a caller passes: in range, 0 and one past the end
ColIndexes == 0..(NCols + 1)

\* ------------------------------------------------------------ documents
Row(ab, tb, bool, datetime, f64, i64, string, unicode, unit_str) ==
  [t \in {"a", "test"} |->
     IF t = "a" THEN SubDoc([f \in {"b"} |-> ab])
     ELSE SubDoc([f \in {"b", "bool", "datetime", "f64", "i64", "max_key", "null",
                          "string", "undefined", "unicode", "unit_str"} |->
            CASE f = "b" -> tb
              [] f = "bool" -> bool
              [] f = "datetime" -> datetime
              [] f = "f64" -> f64
              [] f = "i64" -> i64
              [] f = "max_key" -> BsonMaxKey
              [] f = "null" -> BsonNull
              [] f = "string" -> string
              [] f = "undefined" -> BsonUndefined
              [] f = "unicode" -> unicode
              [] f = "unit_str" -> unit_str])]

Row1 ==
  Row(BsonInt32(42), BsonString(Str(<<"a", "b">>)), BsonBoolean(TRUE),
      BsonDateTime(129609000), BsonDouble(13), BsonInt64(0),
      BsonString(Str(<<"a", "b", "c">>)), BsonString(<<20320, 22909>>),
      BsonString(Str(<<"a">>)))

Row2 ==
  Row(BsonInt32(43), BsonString(Str(<<"c">>)), BsonBoolean(FALSE),
      BsonDateTime(0), BsonDouble(20), BsonInt64(-1),
      BsonString(Str(<<"x", "y">>)), BsonString(<<128512, 97>>),
      BsonString(<<>>))

\* a row whose sub-document "test" lacks the fields "string" and "null"
RowNoField ==
  [t \in {"a", "test"} |->
     IF t = "a" THEN SubDoc([f \in {"b"} |-> BsonInt32(44)])
     ELSE SubDoc([f \in {"b", "unit_str"} |-> BsonString(Str(<<"y">>))])]

\* a row without the top-level key "a"
RowNoTable == [t \in {"test"} |-> Row1[t]]

\* a row whose top-level key "a" holds a scalar, not a document
RowScalarTable == [t \in {"a", "test"} |-> IF t = "a" THEN NotADoc ELSE Row2[t]]

EmptyDoc == [t \in {} |-> NotADoc]

\* the result sets of the cursor model: every run of up to MaxRows documents
\* of the ring Row1, RowNoField, Row2, RowNoTable, RowScalarTable
CursorDocs == <<Row1, RowNoField, Row2, RowNoTable, RowScalarTable>>

Ring(start, n) == [k \in 1..n |-> CursorDocs[((start + k - 2) % Len(CursorDocs)) + 1]]

CursorResultSets == {Ring(start, n) : start \in 1..Len(CursorDocs), n \in 0..MaxRows}

\* ----------------------------------------------------------------- state
VARIABLES
  impl,              \* which MongoStatement the statement handle holds
  resultset,         \* the documents the query yields (mock: its Vec<Document>)
  resultset_cursor,  \* query.rs: Option<Cursor<Document>> and how far it advanced
  current,           \* query.rs: Option<Document>
  mock_current,      \* mock_query.rs: current: usize
  answers,           \* what each SQLFetch so far answered, oldest first
  executes,          \* how often the query was executed
  faults,            \* how often the driver failed under next
  call,              \* the last call: its arguments and everything it returned
  pieces,            \* the run of identical SQLGetData calls the last call belongs to
  trail,             \* the columns read on this row and on the row before, and the
                     \* last three reads on this row with the chunks they handed over
  twin,              \* a mock cursor run side by side with the query: its last results
  columnar           \* odbc-api: the ColumnarBuffer last constructed

vars == <<impl, resultset, resultset_cursor, current, mock_current, answers, executes,
          faults, call, pieces, trail, twin, columnar>>

None == [some |-> FALSE, doc |-> EmptyDoc]
Some(d) == [some |-> TRUE, doc |-> d]

\* ------------------------------------------------------ Result<Option<Bson>>
OkSome(v) == [tag |-> "Some", val |-> v, idx |-> 0]
OkNone == [tag |-> "None", val |-> BsonNull, idx |-> 0]
Err(e, i) == [tag |-> e, val |-> BsonNull, idx |-> i]
NoValue == [tag |-> "", val |-> BsonNull, idx |-> 0]

\* MongoStatement::get_col_metadata (stmt.rs): entry col_index - 1, or
\* ColIndexOutOfBounds(col_index)
InRange(col_index) == col_index >= 1 /\ col_index <= NCols

get_col_metadata(col_index) == resultset_metadata[col_index]

\* Document::get_document(key).get(field), were an absent field an error too
LookupStrict(doc, md) ==
  IF md.table_name \notin DOMAIN doc \/ ~doc[md.table_name].isdoc
    THEN Err("ValueAccess", 0)
  ELSE IF md.col_name \in DOMAIN doc[md.table_name].fields
    THEN OkSome(doc[md.table_name].fields[md.col_name])
  ELSE Err("ValueAccess", 0)

\* Document::get_document(key).get(field)
Lookup(doc, md) ==
  IF md.table_name \notin DOMAIN doc \/ ~doc[md.table_name].isdoc
    THEN Err("ValueAccess", 0)
  ELSE IF md.col_name \in DOMAIN doc[md.table_name].fields
    THEN OkSome(doc[md.table_name].fields[md.col_name])
  ELSE OkNone

\* query.rs MongoQuery::get_value, were the column number taken as 0-based
QueryGetValueZeroBased(cur, col_index) ==
  IF ~cur.some THEN Err("InvalidCursorState", 0)
  ELSE IF ~InRange(col_index + 1) THEN Err("ColIndexOutOfBounds", col_index)
  ELSE LET r == Lookup(cur.doc, get_col_metadata(col_index + 1))
       IN IF r.tag = "ValueAccess" THEN Err("ValueAccess", col_index) ELSE r

\* query.rs MongoQuery::get_value
QueryGetValue(cur, col_index) ==
  IF ~cur.some THEN Err("InvalidCursorState", 0)
  ELSE IF ~InRange(col_index) THEN Err("ColIndexOutOfBounds", col_index)
  ELSE LET r == Lookup(cur.doc, get_col_metadata(col_index))
       IN IF r.tag = "ValueAccess" THEN Err("ValueAccess", col_index) ELSE r

\* mock_query.rs MongoQuery::get_value: indexes the vector with no check
MockGetValue(rs, cur, col_index) ==
  IF ~InRange(col_index) THEN Err("ColIndexOutOfBounds", col_index)
  ELSE IF cur + 1 > Len(rs) THEN Err("Panic", 0)
  ELSE Lookup(rs[cur + 1], get_col_metadata(col_index))

\* get_value, were a column readable only until another column is read
get_value_one_column(col_index) ==
  IF pieces.rets # <<>> /\ pieces.col # col_index THEN OkNone
  ELSE IF impl = "query" THEN QueryGetValue(current, col_index)
  ELSE MockGetValue(resultset, mock_current, col_index)

get_value(col_index) ==
  IF impl = "query" THEN QueryGetValue(current, col_index)
  ELSE MockGetValue(resultset, mock_current, col_index)

\* -------------------------------------------------- data.rs: ToCData
NULL == Str(<<"N", "U", "L", "L">>)

Abs(n) == IF n < 0 THEN -n ELSE n

RECURSIVE Digits(_)
Digits(n) == IF n < 10 THEN <<48 + n>> ELSE Digits(n \div 10) \o <<48 + (n % 10)>>

\* i64::to_string
Decimal(n) == IF n < 0 THEN Str(<<"-">>) \o Digits(-n) ELSE Digits(n)

\* f64 Display as extended JSON writes it: always with a fractional part
DecimalTenths(t) ==
  (IF t < 0 THEN Str(<<"-">>) ELSE <<>>)
    \o Digits(Abs(t) \div 10) \o Str(<<".">>) \o Digits(Abs(t) % 10)

Quoted(text) == Str(<<"\"">>) \o text \o Str(<<"\"">>)

\* {"<key>": <value>}, the pretty form
WrappedPretty(key, value) ==
  Str(<<"{">>) \o Quoted(Str(<<"$">>) \o key) \o Str(<<":", " ">>) \o value \o Str(<<"}">>)

\* {"<key>":<value>}
Wrapped(key, value) ==
  Str(<<"{">>) \o Quoted(Str(<<"$">>) \o key) \o Str(<<":">>) \o value \o Str(<<"}">>)

\* the elements of an array of Int32, each in canonical form, comma-separated
RECURSIVE Elements(_)
Elements(items) ==
  IF items = <<>> THEN <<>>
  ELSE Wrapped(Str(<<"n", "u", "m", "b", "e", "r", "I", "n", "t">>),
               Quoted(Decimal(Head(items))))
         \o (IF Tail(items) = <<>> THEN <<>> ELSE Str(<<",">>) \o Elements(Tail(items)))

\* Bson::into_canonical_extjson().to_string() of the bson crate
into_canonical_extjson(data) ==
  CASE data.type = "Boolean" ->
         IF data.n = 1 THEN Str(<<"t", "r", "u", "e">>) ELSE Str(<<"f", "a", "l", "s", "e">>)
    [] data.type = "Int32" ->
         Wrapped(Str(<<"n", "u", "m", "b", "e", "r", "I", "n", "t">>), Quoted(Decimal(data.n)))
    [] data.type = "Int64" ->
         Wrapped(Str(<<"n", "u", "m", "b", "e", "r", "L", "o", "n", "g">>),
                 Quoted(Decimal(data.n)))
    [] data.type = "Double" ->
         Wrapped(Str(<<"n", "u", "m", "b", "e", "r", "D", "o", "u", "b", "l", "e">>),
                 Quoted(DecimalTenths(data.n)))
    [] data.type = "DateTime" ->
         Wrapped(Str(<<"d", "a", "t", "e">>),
                 Wrapped(Str(<<"n", "u", "m", "b", "e", "r", "L", "o", "n", "g">>),
                         Quoted(Decimal(data.n))))
    [] data.type = "MaxKey" -> Wrapped(Str(<<"m", "a", "x", "K", "e", "y">>), Str(<<"1">>))
    [] data.type = "MinKey" -> Wrapped(Str(<<"m", "i", "n", "K", "e", "y">>), Str(<<"1">>))
    [] data.type = "ObjectId" -> Wrapped(Str(<<"o", "i", "d">>), Quoted(data.s))
    [] data.type = "Array" -> Str(<<"[">>) \o Elements(data.s) \o Str(<<"]">>)
    [] OTHER -> Str(<<"n", "u", "l", "l">>)

\* the variants the match of ToCData::to_string names an arm for
to_string_arms ==
  {"Null", "Undefined", "String", "Decimal128", "Array", "Binary", "DateTime",
   "DbPointer", "Document", "JavaScriptCode", "JavaScriptCodeWithScope", "MaxKey",
   "MinKey", "ObjectId", "RegularExpression", "Symbol", "Timestamp"}

\* ToCData::to_string.  The match names no arm for Boolean, Int32, Int64 and
\* Double; they are rendered like the variants of its last arm.
to_string(data) ==
  CASE data.type = "Null" -> NULL
    [] data.type = "Undefined" -> NULL
    [] data.type = "String" -> data.s
    [] OTHER -> into_canonical_extjson(data)

IsDigit(u) == u >= 48 /\ u <= 57

RECURSIVE DigitsValue(_)
DigitsValue(ds) ==
  IF ds = <<>> THEN 0 ELSE 10 * DigitsValue(Take(ds, Len(ds) - 1)) + (ds[Len(ds)] - 48)

\* i64::from_str / i32::from_str: an optional sign and at least one digit
IsIntegerText(text) ==
  LET body == IF text # <<>> /\ text[1] \in {43, 45} THEN Tail(text) ELSE text
  IN body # <<>> /\ \A i \in 1..Len(body) : IsDigit(body[i])

IntegerValue(text) ==
  IF text[1] = 45 THEN -DigitsValue(Tail(text))
  ELSE IF text[1] = 43 THEN DigitsValue(Tail(text))
  ELSE DigitsValue(text)

\* `as i64` of a float: toward zero
Truncate(tenths) == IF tenths < 0 THEN -((-tenths) \div 10) ELSE tenths \div 10

\* ToCData::to_i64
to_i64(data) ==
  CASE data.type = "DateTime" -> data.n
    [] data.type = "Double" -> Truncate(data.n)
    [] data.type = "String" -> IF IsIntegerText(data.s) THEN IntegerValue(data.s) ELSE 0
    [] data.type = "Boolean" -> data.n
    [] data.type = "Int32" -> data.n
    [] data.type = "Int64" -> data.n
    [] OTHER -> 0

\* the words of an i64: those it is held as, or those of its number
Words(data) ==
  IF data.s # <<>> THEN data.s
  ELSE <<IF data.n < 0 THEN -1 ELSE 0, (data.n \div HALFWORD) % HALFWORD, data.n % HALFWORD>>

\* `as i32` of an i64: the low 32 bits, read as a signed number
AsI32(words) ==
  (IF words[2] >= HALFWORD \div 2 THEN words[2] - HALFWORD ELSE words[2]) * HALFWORD + words[3]

\* ToCData::to_i32
to_i32(data) ==
  CASE data.type = "DateTime" -> AsI32(Words(data))
    [] data.type = "Double" -> Truncate(data.n)
    [] data.type = "String" -> IF IsIntegerText(data.s) THEN IntegerValue(data.s) ELSE 0
    [] data.type = "Boolean" -> data.n
    [] data.type = "Int32" -> data.n
    [] data.type = "Int64" -> AsI32(Words(data))
    [] OTHER -> 0

\* f64::from_str on the texts the model holds: an integer, or digits "." digit
IsFloatText(text) ==
  \/ IsIntegerText(text)
  \/ /\ Len(text) >= 3
     /\ text[Len(text) - 1] = 46
     /\ IsDigit(text[Len(text)])
     /\ IsIntegerText(Take(text, Len(text) - 2))

FloatTenths(text) ==
  IF IsIntegerText(text) THEN 10 * IntegerValue(text)
  ELSE LET whole == IntegerValue(Take(text, Len(text) - 2))
           frac == text[Len(text)] - 48
       IN IF text[1] = 45 THEN 10 * whole - frac ELSE 10 * whole + frac

\* ToCData::to_f64 (in tenths)
to_f64(data) ==
  CASE data.type = "DateTime" -> 10 * data.n
    [] data.type = "Double" -> data.n
    [] data.type = "String" -> IF IsFloatText(data.s) THEN FloatTenths(data.s) ELSE 0
    [] data.type = "Boolean" -> 10 * data.n
    [] data.type = "Int32" -> 10 * data.n
    [] data.type = "Int64" -> 10 * data.n
    [] OTHER -> 0

\* ToCData::to_f32 (in tenths)
to_f32(data) ==
  CASE data.type = "DateTime" -> 10 * data.n
    [] data.type = "Double" -> data.n
    [] data.type = "String" -> IF IsFloatText(data.s) THEN FloatTenths(data.s) ELSE 0
    [] data.type = "Boolean" -> 10 * data.n
    [] data.type = "Int32" -> 10 * data.n
    [] data.type = "Int64" -> 10 * data.n
    [] OTHER -> 0

\* ToCData::to_bool (1 is true)
to_bool(data) ==
  CASE data.type = "Double" -> IF data.n # 0 THEN 1 ELSE 0
    [] data.type = "String" ->
         IF data.s \in {Str(<<"1">>), Str(<<"t", "r", "u", "e">>)} THEN 1 ELSE 0
    [] data.type = "Boolean" -> data.n
    [] data.type = "Int32" -> IF data.n # 0 THEN 1 ELSE 0
    [] data.type = "Int64" -> IF data.n # 0 THEN 1 ELSE 0
    [] OTHER -> 0

\* ToCData::to_date: milliseconds since the epoch, 0 for what is no DateTime
to_date(data) == IF data.type = "DateTime" THEN data.n ELSE 0

\* chrono: the UTC calendar fields of a millisecond count
FloorDiv(a, b) == IF a >= 0 THEN a \div b ELSE -((-a + b - 1) \div b)

CivilFromDays(days) ==
  LET z == days + 719468
      era == FloorDiv(z, 146097)
      doe == z - era * 146097
      yoe == (doe - doe \div 1460 + doe \div 36524 - doe \div 146096) \div 365
      doy == doe - (365 * yoe + yoe \div 4 - yoe \div 100)
      mp == (5 * doy + 2) \div 153
      d == doy - (153 * mp + 2) \div 5 + 1
      m == IF mp < 10 THEN mp + 3 ELSE mp - 9
      y == yoe + era * 400 + (IF m <= 2 THEN 1 ELSE 0)
  IN [year |-> y, month |-> m, day |-> d]

Calendar(millis) ==
  LET days == FloorDiv(millis, 86400000)
      rest == millis - days * 86400000
      date == CivilFromDays(days)
  IN [year |-> date.year, month |-> date.month, day |-> date.day,
      hour |-> rest \div 3600000, minute |-> (rest \div 60000) % 60,
      second |-> (rest \div 1000) % 60, millisecond |-> rest % 1000]

\* ------------------------------------------ data.rs: the buffer writers
\* What one call leaves behind: the status, the units written to the
\* destination (terminator included), the fixed-size value written and its
\* size, the content of the caller's length/indicator slot, the diagnostic.
Outcome(ret, written, fixed, fixed_size, ind, diag) ==
  [ret |-> ret, written |-> written, fixed |-> fixed, fixed_size |-> fixed_size,
   ind |-> ind, diag |-> diag]

\* a store through a null pointer: the process dies, or the store is dropped
NullStore(ret, ind0) ==
  {Outcome("SIGSEGV", <<>>, <<>>, 0, ind0, ""), Outcome(ret, <<>>, <<>>, 0, ind0, "")}

\* `*text_length_ptr = v as SmallInt` through a pointer that was cast from
\* *mut Len: the low 16 bits of the caller's slot are replaced
StoreSmallInt(ind0, v) == ind0 - (ind0 % SMALLINT_MOD) + (v % SMALLINT_MOD)

\* set_output_string, were the whole message copied whatever the capacity
set_output_string_unbounded(message, out_null, buffer_len, len_null, ind0) ==
  LET message_u8 == bytes(message)
      message_len == Len(message_u8)
      num_chars == message_len + 1
  IN IF out_null
       THEN IF ~len_null
              THEN {Outcome("SUCCESS_WITH_INFO", <<>>, <<>>, 0, StoreSmallInt(ind0, 0), "")}
              ELSE NullStore("SUCCESS_WITH_INFO", ind0)
     ELSE {Outcome("SUCCESS", Take(message_u8, num_chars - 1) \o <<0>>, <<>>, 0,
                   IF ~len_null THEN StoreSmallInt(ind0, num_chars - 1) ELSE ind0, "")}

\* set_output_string
set_output_string(message, out_null, buffer_len, len_null, ind0) ==
  LET message_u8 == bytes(message)
      message_len == Len(message_u8)
      num_chars == Min(message_len + 1, buffer_len)
  IN IF out_null
       THEN IF ~len_null
              THEN {Outcome("SUCCESS_WITH_INFO", <<>>, <<>>, 0, StoreSmallInt(ind0, 0), "")}
              ELSE NullStore("SUCCESS_WITH_INFO", ind0)
     ELSE IF num_chars = 0
       THEN {Outcome("SUCCESS_WITH_INFO", <<>>, <<>>, 0, ind0, "")}
     ELSE {Outcome(IF num_chars < message_len THEN "SUCCESS_WITH_INFO" ELSE "SUCCESS",
                   Take(message_u8, num_chars - 1) \o <<0>>, <<>>, 0,
                   IF ~len_null THEN StoreSmallInt(ind0, num_chars - 1) ELSE ind0, "")}

\* set_output_wstring
set_output_wstring(message, out_null, buffer_len, len_null, ind0) ==
  LET message_u16 == encode_utf16(message)
      message_len == Len(message_u16)
      num_chars == Min(message_len + 1, buffer_len)
  IN IF out_null
       THEN IF ~len_null
              THEN {Outcome("SUCCESS_WITH_INFO", <<>>, <<>>, 0, StoreSmallInt(ind0, 0), "")}
              ELSE NullStore("SUCCESS_WITH_INFO", ind0)
     ELSE IF num_chars = 0
       THEN {Outcome("SUCCESS_WITH_INFO", <<>>, <<>>, 0, ind0, "")}
     ELSE {Outcome(IF num_chars < message_len THEN "SUCCESS_WITH_INFO" ELSE "SUCCESS",
                   Take(message_u16, num_chars - 1) \o <<0>>, <<>>, 0,
                   IF ~len_null THEN StoreSmallInt(ind0, num_chars - 1) ELSE ind0, "")}

\* set_output_fixed_data::<T>, size = size_of::<T>()
set_output_fixed_data(data, size, out_null, buffer_len, len_null, ind0) ==
  IF out_null
    THEN IF ~len_null
           THEN {Outcome("SUCCESS_WITH_INFO", <<>>, <<>>, 0, 0, "")}
           ELSE NullStore("SUCCESS_WITH_INFO", ind0)
  ELSE {Outcome("SUCCESS", <<>>, data, size, ind0, "")}

\* size_of::<T>() of the fixed-size targets
SizeOf(target_type) ==
  CASE target_type = "Bit" -> 1
    [] target_type \in {"SLong", "ULong", "Float"} -> 4
    [] target_type \in {"SBigInt", "UBigInt", "Double"} -> 8
    [] target_type = "TimeStamp" -> 16
    [] target_type \in {"Date", "Time"} -> 6
    [] OTHER -> 0

CDataTypes ==
  {"Char", "WChar", "Binary", "Bit", "SBigInt", "UBigInt", "SLong", "ULong", "Double",
   "Float", "TimeStamp", "Date", "Time", "Guid"}

TextTypes == {"Char", "WChar", "Binary"}

FixedTypes == CDataTypes \ (TextTypes \cup {"Guid"})

\* format_and_return_bson
format_and_return_bson(target_type, out_null, buffer_len, len_null, ind0, data) ==
  CASE target_type \in {"Char", "Binary"} ->
         set_output_string(to_string(data), out_null, buffer_len, len_null, ind0)
    [] target_type = "WChar" ->
         set_output_wstring(to_string(data), out_null, buffer_len, len_null, ind0)
    [] target_type = "Bit" ->
         set_output_fixed_data(<<to_bool(data)>>, SizeOf("Bit"), out_null, buffer_len,
                               len_null, ind0)
    [] target_type = "Double" ->
         set_output_fixed_data(<<to_f64(data)>>, SizeOf("Double"), out_null, buffer_len,
                               len_null, ind0)
    [] target_type = "Float" ->
         set_output_fixed_data(<<to_f32(data)>>, SizeOf("Float"), out_null, buffer_len,
                               len_null, ind0)
    [] target_type = "SBigInt" ->
         set_output_fixed_data(<<to_i64(data)>>, SizeOf("SBigInt"), out_null, buffer_len,
                               len_null, ind0)
    [] target_type = "SLong" ->
         set_output_fixed_data(<<to_i32(data)>>, SizeOf("SLong"), out_null, buffer_len,
                               len_null, ind0)
    [] target_type = "TimeStamp" ->
         LET dt == Calendar(to_date(data))
         IN set_output_fixed_data(<<dt.year, dt.month, dt.day, dt.hour, dt.minute,
                                    dt.second, dt.millisecond>>,
                                  SizeOf("TimeStamp"), out_null, buffer_len, len_null, ind0)
    [] target_type = "Time" ->
         LET dt == Calendar(to_date(data))
         IN set_output_fixed_data(<<dt.hour, dt.minute, dt.second>>, SizeOf("Time"),
                                  out_null, buffer_len, len_null, ind0)
    [] target_type = "Date" ->
         LET dt == Calendar(to_date(data))
         IN set_output_fixed_data(<<dt.year, dt.month, dt.day>>, SizeOf("Date"),
                                  out_null, buffer_len, len_null, ind0)
    [] OTHER -> {Outcome("ERROR", <<>>, <<>>, 0, ind0, "Unimplemented")}

\* ------------------------------------------------------------------ next
\* The driver's Cursor::advance and deserialize_current, either of which may
\* fail: fault is "none", "advance" or "deserialize".
\* query.rs MongoQuery::next, were a row once stored never replaced
QueryNextKeepsRow(rc, cur, rs, fault) ==
  IF ~rc.some THEN [rc |-> rc, current |-> None, answer |-> "err"]
  ELSE IF fault = "advance" THEN [rc |-> rc, current |-> None, answer |-> "err"]
  ELSE IF rc.pos < Len(rs)
    THEN IF fault = "deserialize"
           THEN [rc |-> [rc EXCEPT !.pos = rc.pos + 1], current |-> cur, answer |-> "err"]
           ELSE [rc |-> [rc EXCEPT !.pos = rc.pos + 1],
                 current |-> IF cur.some THEN cur ELSE Some(rs[rc.pos + 1]),
                 answer |-> "row"]
  ELSE [rc |-> rc, current |-> None, answer |-> "norow"]

\* query.rs MongoQuery::next; the result is the new cursor, the new current
\* row and the answer Ok(true) "row", Ok(false) "norow" or Err "err".
QueryNext(rc, cur, rs, fault) ==
  IF ~rc.some THEN [rc |-> rc, current |-> None, answer |-> "err"]
  ELSE IF fault = "advance" THEN [rc |-> rc, current |-> None, answer |-> "err"]
  ELSE IF rc.pos < Len(rs)
    THEN IF fault = "deserialize"
           THEN [rc |-> [rc EXCEPT !.pos = rc.pos + 1], current |-> cur, answer |-> "err"]
           ELSE [rc |-> [rc EXCEPT !.pos = rc.pos + 1], current |-> Some(rs[rc.pos + 1]),
                 answer |-> "row"]
  ELSE [rc |-> rc, current |-> None, answer |-> "norow"]

\* mock_query.rs MongoQuery::next
MockNext(cur, rs) ==
  [current |-> cur + 1, answer |-> IF cur + 1 < Len(rs) THEN "row" ELSE "norow"]

\* ------------------------------------------------------------- the calls
NoCall ==
  [op |-> "none", col |-> 0, target_type |-> "", buffer_len |-> 0,
   out_null |-> FALSE, len_null |-> FALSE, ind0 |-> 0,
   gv |-> NoValue, ret |-> "", written |-> <<>>, fixed |-> <<>>, fixed_size |-> 0,
   ind |-> 0, diag |-> ""]

NoPieces ==
  [col |-> 0, target_type |-> "", buffer_len |-> 0, out_null |-> FALSE, len_null |-> FALSE,
   rets |-> <<>>, chunks |-> <<>>]

\* no side-by-side call made yet
NoTwin == [op |-> "none", answer |-> "", gv |-> NoValue]

\* no ColumnarBuffer constructed yet
NoBuffer ==
  [op |-> "none", arg |-> <<>>, panic |-> "", num_rows |-> 0, row_capacity |-> 0,
   columns |-> <<>>]

\* a panic or a fault ends the process
Alive == call.ret \notin {"SIGSEGV", "PANIC"} /\ call.gv.tag # "Panic"

InitCommon ==
  /\ impl \in {"query", "mock"}
  /\ resultset_cursor = [some |-> FALSE, pos |-> 0]
  /\ current = None
  /\ mock_current = 0
  /\ answers = <<>>
  /\ executes = 0
  /\ faults = 0
  /\ call = NoCall
  /\ pieces = NoPieces
  /\ trail = [now |-> {}, before |-> {}, reads |-> <<>>]
  /\ twin = NoTwin
  /\ columnar = NoBuffer

\* query.rs MongoQuery::execute: installs a fresh cursor on the result set
Execute ==
  /\ Alive
  /\ impl = "query"
  /\ executes < MaxExecutes
  /\ resultset_cursor' = [some |-> TRUE, pos |-> 0]
  /\ executes' = executes + 1
  /\ call' = [NoCall EXCEPT !.op = "execute", !.ret = "SUCCESS"]
  /\ pieces' = NoPieces
  /\ UNCHANGED <<impl, resultset, current, mock_current, answers, faults, trail>>
  /\ UNCHANGED <<twin, columnar>>

FetchReturn(answer) ==
  CASE answer = "row" -> "SUCCESS" [] answer = "norow" -> "NO_DATA" [] OTHER -> "ERROR"

\* SQLFetch on a statement that holds a query.rs MongoQuery
Advanced(answer, track) ==
  IF track /\ answer = "row" THEN [now |-> {}, before |-> trail.now, reads |-> <<>>]
  ELSE trail

FetchQuery(driver_faults, track) ==
  /\ Alive
  /\ impl = "query"
  /\ Len(answers) < Len(resultset) + MaxExtraFetch
  /\ \E fault \in driver_faults :
       LET r == QueryNext(resultset_cursor, current, resultset, fault)
       IN /\ (fault = "deserialize" => r.answer = "err" /\ resultset_cursor.some
                                        /\ resultset_cursor.pos < Len(resultset))
          /\ (fault = "advance" => resultset_cursor.some)
          /\ (fault # "none" => faults < MaxFaults)
          /\ resultset_cursor' = r.rc
          /\ current' = r.current
          /\ answers' = Append(answers, r.answer)
          /\ faults' = IF fault = "none" THEN faults ELSE faults + 1
          /\ call' = [NoCall EXCEPT !.op = "SQLFetch", !.ret = FetchReturn(r.answer)]
          /\ trail' = Advanced(r.answer, track)
  /\ pieces' = NoPieces
  /\ UNCHANGED <<impl, resultset, mock_current, executes>>
  /\ UNCHANGED <<twin, columnar>>

\* what the driver may do in one advance: succeed, fail in Cursor::advance,
\* or fail in Cursor::deserialize_current
DriverFaults == {"none", "advance", "deserialize"}

SQLFetchQuery == FetchQuery(DriverFaults, FALSE)

\* the same over a driver that does not fail
SQLFetchQueryOk == FetchQuery({"none"}, FALSE)

\* SQLFetch on a statement that holds a mock_query.rs MongoQuery
FetchMock(track) ==
  /\ Alive
  /\ impl = "mock"
  /\ Len(answers) < Len(resultset) + MaxExtraFetch
  /\ LET r == MockNext(mock_current, resultset)
     IN /\ mock_current' = r.current
        /\ answers' = Append(answers, r.answer)
        /\ call' = [NoCall EXCEPT !.op = "SQLFetch", !.ret = FetchReturn(r.answer)]
        /\ trail' = Advanced(r.answer, track)
  /\ pieces' = NoPieces
  /\ UNCHANGED <<impl, resultset, resultset_cursor, current, executes, faults>>
  /\ UNCHANGED <<twin, columnar>>

SQLFetchMock == FetchMock(FALSE)

\* get_value, were it to take the current row (self.current.take())
CurrentAfterTake(cur) == None

\* get_value borrows the current row (self.current.as_ref()) and leaves it
CurrentAfterGet(cur) == cur

\* MongoStatement::get_value called on the statement's cursor
GetValue ==
  /\ Alive
  /\ \E col \in ColIndexes :
       call' = [NoCall EXCEPT !.op = "get_value", !.col = col, !.gv = get_value(col)]
  /\ current' = CurrentAfterGet(current)
  /\ pieces' = NoPieces
  /\ UNCHANGED <<impl, resultset, resultset_cursor, mock_current, answers, executes, faults,
                 trail>>
  /\ UNCHANGED <<twin, columnar>>

\* the last three reads of a list of reads
LastReads(reads) == IF Len(reads) > 3 THEN Tail(reads) ELSE reads

\* the data units of a call's write: what precedes the terminator
Chunk(written) == IF written = <<>> THEN <<>> ELSE Take(written, Len(written) - 1)

\* SQLGetData (api/functions.rs): the value of the column, a missing field
\* read as NULL, handed to the buffer writer; an error of get_value is ERROR
GetDataOutcomes(gv, target_type, out_null, buffer_len, len_null, ind0) ==
  CASE gv.tag = "Some" ->
         format_and_return_bson(target_type, out_null, buffer_len, len_null, ind0, gv.val)
    [] gv.tag = "None" ->
         format_and_return_bson(target_type, out_null, buffer_len, len_null, ind0, BsonNull)
    [] gv.tag = "Panic" -> {Outcome("PANIC", <<>>, <<>>, 0, ind0, "")}
    [] OTHER -> {Outcome("ERROR", <<>>, <<>>, 0, ind0, gv.tag)}

SQLGetData(cols, types, bufs, out_nulls, len_nulls, inds, track) ==
  /\ Alive
  /\ \E col \in cols, target_type \in types, buffer_len \in bufs,
        out_null \in out_nulls, len_null \in len_nulls, ind0 \in inds :
       LET gv == get_value(col)
           again == /\ pieces.rets # <<>>
                    /\ pieces.col = col
                    /\ pieces.target_type = target_type
                    /\ pieces.buffer_len = buffer_len
                    /\ pieces.out_null = out_null
                    /\ pieces.len_null = len_null
           run == IF again THEN pieces
                  ELSE [NoPieces EXCEPT !.col = col, !.target_type = target_type,
                                        !.buffer_len = buffer_len, !.out_null = out_null,
                                        !.len_null = len_null]
       IN /\ Len(run.rets) < MaxPieces
          /\ (len_null => ind0 = 0)
          /\ \E o \in GetDataOutcomes(gv, target_type, out_null, buffer_len, len_null, ind0) :
               /\ call' = [op |-> "SQLGetData", col |-> col, target_type |-> target_type,
                           buffer_len |-> buffer_len, out_null |-> out_null,
                           len_null |-> len_null, ind0 |-> ind0, gv |-> gv, ret |-> o.ret,
                           written |-> o.written, fixed |-> o.fixed,
                           fixed_size |-> o.fixed_size, ind |-> o.ind, diag |-> o.diag]
               /\ pieces' = [run EXCEPT !.rets = Append(@, o.ret),
                                        !.chunks = Append(@, Chunk(o.written))]
               /\ trail' = IF track /\ o.ret \in {"SUCCESS", "SUCCESS_WITH_INFO"}
                             THEN [trail EXCEPT
                                     !.now = @ \cup {col},
                                     !.reads = LastReads(Append(@,
                                                 [col |-> col, chunk |-> Chunk(o.written)]))]
                             ELSE trail
  /\ current' = CurrentAfterGet(current)
  /\ UNCHANGED <<impl, resultset, resultset_cursor, mock_current, answers, executes, faults>>
  /\ UNCHANGED <<twin, columnar>>

\* the values format_and_return_bson is handed directly
FormatValues ==
  {BsonNull, BsonUndefined, BsonBoolean(TRUE), BsonBoolean(FALSE), BsonInt32(1),
   BsonInt32(-1), BsonInt64(0), BsonInt64(-1), BsonDouble(13), BsonDouble(20),
   BsonDouble(-13), BsonString(Str(<<"h", "e", "l", "l", "o", " ", "w", "o", "r", "l", "d", "!">>)),
   BsonString(Str(<<"4", "2">>)), BsonString(Str(<<"1", ".", "5">>)), BsonString(<<>>),
   BsonDateTime(129609000), BsonDateTime(86400000), BsonDateTime(-1), BsonMaxKey,
   BsonMinKey,
   BsonObjectId(Str(<<"6", "3", "4", "4", "8", "d", "f", "e", "d", "3", "8", "4", "2", "7",
                      "a", "3", "5", "d", "5", "3", "4", "e", "4", "0">>)),
   BsonArray(<<1, 2, 3>>)}

\* format_and_return_bson called on a value, with a buffer and a length slot
Format(values, types, bufs) ==
  /\ Alive
  /\ \E data \in values, target_type \in types, buffer_len \in bufs :
       \E o \in format_and_return_bson(target_type, FALSE, buffer_len, FALSE, 0, data) :
         call' = [op |-> "format_and_return_bson", col |-> 0, target_type |-> target_type,
                  buffer_len |-> buffer_len, out_null |-> FALSE, len_null |-> FALSE,
                  ind0 |-> 0, gv |-> OkSome(data), ret |-> o.ret, written |-> o.written,
                  fixed |-> o.fixed, fixed_size |-> o.fixed_size, ind |-> o.ind,
                  diag |-> o.diag]
  /\ pieces' = NoPieces
  /\ UNCHANGED <<impl, resultset, resultset_cursor, current, mock_current, answers, executes,
                 faults, trail>>
  /\ UNCHANGED <<twin, columnar>>

\* the values, targets and slots of the calls that exercise the writers:
\* texts of 0, 2 and 3 units, one whose UTF-8 and UTF-16 lengths differ (an
\* e acute and a code point above the BMP), a NULL and a number
BufferValues ==
  {BsonString(<<>>), BsonString(Str(<<"x", "y">>)), BsonString(Str(<<"a", "b", "c">>)),
   BsonString(<<233, 128169>>), BsonNull, BsonInt32(1)}

BufferTypes == {"Char", "WChar", "Binary", "Bit", "SLong", "Double"}

BufferSlots == {0, NULL_DATA}

\* format_and_return_bson called on a value with a destination of
\* buffer_len units, which may be null, and a length slot, which may be null
FormatInto(values, types, bufs, out_nulls, len_nulls, inds) ==
  /\ Alive
  /\ \E data \in values, target_type \in types, buffer_len \in bufs,
        out_null \in out_nulls, len_null \in len_nulls, ind0 \in inds :
       \E o \in format_and_return_bson(target_type, out_null, buffer_len, len_null, ind0,
                                       data) :
         call' = [op |-> "format_and_return_bson", col |-> 0, target_type |-> target_type,
                  buffer_len |-> buffer_len, out_null |-> out_null, len_null |-> len_null,
                  ind0 |-> ind0, gv |-> OkSome(data), ret |-> o.ret, written |-> o.written,
                  fixed |-> o.fixed, fixed_size |-> o.fixed_size, ind |-> o.ind,
                  diag |-> o.diag]
  /\ pieces' = NoPieces
  /\ UNCHANGED <<impl, resultset, resultset_cursor, current, mock_current, answers, executes,
                 faults, trail>>
  /\ UNCHANGED <<twin, columnar>>

\* ------------------------------------------- the cursor on its own
InitCursor == InitCommon /\ resultset \in CursorResultSets

NextCursor == Execute \/ SQLFetchQuery \/ SQLFetchMock \/ GetValue

SpecCursor == InitCursor /\ [][NextCursor]_vars

\* ------------------------------------------------ reading text by pieces
DataResultSets == {<<Row1, Row2, RowNoField>>}

Init == InitCommon /\ resultset \in DataResultSets

\* a.b, test.b, test.max_key, test.null, test.string, test.unicode,
\* test.unit_str and the two column numbers out of range
TextCols == {0, 1, 2, 7, 8, 9, 11, 12, NCols + 1}

GetText == SQLGetData(TextCols, TextTypes, 0..MaxBuf, {FALSE}, {FALSE}, {0}, FALSE)

Next == Execute \/ SQLFetchQueryOk \/ SQLFetchMock \/ GetText

Spec == Init /\ [][Next]_vars

\* ------------------------------------------------ reading every C type
\* a.b, test.datetime, test.f64, test.null, test.string, test.undefined and
\* a column number out of range
TypedCols == {1, 4, 5, 8, 9, 10, NCols + 1}

GetTyped == SQLGetData(TypedCols, CDataTypes, {MaxBuf}, {FALSE}, {FALSE}, {0}, FALSE)

NextTypes == Execute \/ SQLFetchQueryOk \/ SQLFetchMock \/ GetTyped

SpecTypes == Init /\ [][NextTypes]_vars

\* ------------------------------------- reading the same columns row by row
SQLFetchQueryRows == FetchQuery({"none"}, TRUE)

SQLFetchMockRows == FetchMock(TRUE)

\* test.string and test.unit_str, read in part (2) and in full (MaxBuf)
RowCols == {9, 12}

\* the narrow and the wide character target
CharTypes == {"Char", "WChar"}

RowBufs == {2, MaxBuf}

GetRows == SQLGetData(RowCols, CharTypes, RowBufs, {FALSE}, {FALSE}, {0}, TRUE)

NextRows == Execute \/ SQLFetchQueryRows \/ SQLFetchMockRows \/ GetRows

SpecRows == Init /\ [][NextRows]_vars

\* --------------------------- reading two columns of a row in turn, in part
\* a buffer of two units: "abc" is handed over in part, "a" whole
PartBufs == {2}

GetColumns == SQLGetData(RowCols, CharTypes, PartBufs, {FALSE}, {FALSE}, {0}, TRUE)

NextColumns == Execute \/ SQLFetchQueryRows \/ SQLFetchMockRows \/ GetColumns

SpecColumns == Init /\ [][NextColumns]_vars

\* -------------------------------------------- formatting a value on its own
\* a buffer that cuts the longer texts and one that holds every text whole
FormatBufs == {MaxBuf, WholeBuf}

FormatAny == Format(FormatValues, CDataTypes, FormatBufs)

InitFormat == InitCommon /\ resultset = <<>>

NextFormat == FormatAny

SpecFormat == InitFormat /\ [][NextFormat]_vars

\* ------------------------------ the two cursors over the same documents
\* query.rs MongoQuery::execute, before either cursor is used
ExecuteBoth ==
  /\ answers = <<>>
  /\ twin = NoTwin
  /\ Execute

\* next() called on the executed query.rs cursor and on a mock_query.rs
\* cursor made of the same documents
NextBoth ==
  /\ Alive
  /\ impl = "query"
  /\ resultset_cursor.some
  /\ Len(answers) < Len(resultset) + MaxExtraFetch
  /\ LET r == QueryNext(resultset_cursor, current, resultset, "none")
         m == MockNext(mock_current, resultset)
     IN /\ resultset_cursor' = r.rc
        /\ current' = r.current
        /\ answers' = Append(answers, r.answer)
        /\ call' = [NoCall EXCEPT !.op = "next", !.ret = r.answer]
        /\ mock_current' = m.current
        /\ twin' = [op |-> "next", answer |-> m.answer, gv |-> NoValue]
  /\ pieces' = NoPieces
  /\ UNCHANGED <<impl, resultset, executes, faults, trail, columnar>>

\* get_value(col) called on both
GetValueBoth ==
  /\ Alive
  /\ impl = "query"
  /\ resultset_cursor.some
  /\ \E col \in ColIndexes :
       /\ call' = [NoCall EXCEPT !.op = "get_value", !.col = col,
                                 !.gv = QueryGetValue(current, col)]
       /\ twin' = [op |-> "get_value", answer |-> "",
                   gv |-> MockGetValue(resultset, mock_current, col)]
  /\ current' = CurrentAfterGet(current)
  /\ pieces' = NoPieces
  /\ UNCHANGED <<impl, resultset, resultset_cursor, mock_current, answers, executes, faults,
                 trail, columnar>>

InitBoth == InitCommon /\ impl = "query" /\ resultset \in CursorResultSets

NextBothCursors == ExecuteBoth \/ NextBoth \/ GetValueBoth

SpecBoth == InitBoth /\ [][NextBothCursors]_vars

\* ------------------------------------------- odbc-api: ColumnarBuffer::new
\* the least of a list of capacities, 0 for the empty list:
\* columns.iter().map(|(_, col)| col.capacity()).min().unwrap_or(0)
RECURSIVE MinCapacity(_)
MinCapacity(columns) ==
  IF columns = <<>> THEN 0
  ELSE IF Len(columns) = 1 THEN columns[1].capacity
  ELSE Min(columns[1].capacity, MinCapacity(Tail(columns)))

\* columns.iter().any(|&(col_index, _)| !indices.insert(col_index)): an index
\* that an earlier pair holds already
AnyRepeatedIndex(columns) ==
  \E i \in 1..Len(columns) :
    columns[i].col_index \in {columns[j].col_index : j \in 1..(i - 1)}

\* ColumnarBuffer::new_unchecked
new_unchecked(capacity, columns) ==
  [op |-> "new", arg |-> columns, panic |-> "", num_rows |-> 0, row_capacity |-> capacity,
   columns |-> columns]

\* ColumnarBuffer::new, were the row capacity the greatest capacity of a column
new_max_capacity(columns) ==
  IF AnyRepeatedIndex(columns)
    THEN [NoBuffer EXCEPT !.op = "new", !.arg = columns,
                          !.panic = "Column indices must be unique."]
  ELSE new_unchecked(IF columns = <<>> THEN 0
                     ELSE CHOOSE c \in {columns[i].capacity : i \in 1..Len(columns)} :
                            \A i \in 1..Len(columns) : columns[i].capacity <= c,
                     columns)

\* ColumnarBuffer::new
new(columns) ==
  IF AnyRepeatedIndex(columns)
    THEN [NoBuffer EXCEPT !.op = "new", !.arg = columns,
                          !.panic = "Column indices must be unique."]
  ELSE new_unchecked(MinCapacity(columns), columns)

\* the lists of (column index, column) pairs handed to new; a column is
\* known by its capacity
ColumnPairs ==
  [col_index : 1..MaxColIndex, capacity : 0..MaxCapacity]

ColumnLists ==
  UNION {[1..n -> ColumnPairs] : n \in 0..MaxColumns}

\* one construction: the constructor takes its columns by value and the
\* buffer it returns is all that is left of the call
ColumnarBufferNew ==
  /\ columnar = NoBuffer
  /\ \E columns \in ColumnLists : columnar' = new(columns)
  /\ UNCHANGED <<impl, resultset, resultset_cursor, current, mock_current, answers, executes,
                 faults, call, pieces, trail, twin>>

InitColumnar == InitCommon /\ resultset = <<>>

NextColumnar == ColumnarBufferNew

SpecColumnar == InitColumnar /\ [][NextColumnar]_vars

\* ------------------------------------- 64-bit integers to a 32-bit target
\* Int64 and DateTime values about the edges of the i32 range and beyond it
LowHalves == {0, 1, 32767, 32768, 65535}

NarrowValues ==
  {BsonInt64Wide(hi, lo1, lo0) :
     hi \in (-MaxHighWord - 1)..MaxHighWord, lo1 \in LowHalves, lo0 \in LowHalves}
  \cup {BsonDateTimeWide(hi, lo1, lo0) :
           hi \in (-MaxHighWord - 1)..MaxHighWord, lo1 \in LowHalves, lo0 \in LowHalves}
  \cup {BsonDateTimeWide(329, 63045, 51496), BsonInt64(42), BsonInt64(-1),
        BsonDateTime(129609000)}

FormatNarrow == Format(NarrowValues, {"SLong"}, {MaxBuf})

InitNarrow == InitCommon /\ resultset = <<>>

NextNarrow == FormatNarrow

SpecNarrow == InitNarrow /\ [][NextNarrow]_vars

\* ------------------------------------------- the writers and their buffers
FormatIntoAny ==
  FormatInto(BufferValues, BufferTypes, 0..(MaxBuf + 1), BOOLEAN, BOOLEAN, BufferSlots)

InitBuffers == InitCommon /\ resultset = <<>>

NextBuffers == FormatIntoAny

SpecBuffers == InitBuffers /\ [][NextBuffers]_vars

\* ======================================================= the properties
\* the units one call with a large enough buffer hands over for a value
WholeValue(data, target_type) ==
  IF target_type = "WChar" THEN encode_utf16(to_string(data)) ELSE bytes(to_string(data))

\* the last call read a column that holds a value other than NULL as text or
\* binary into a buffer with room for the terminator at least
TextGet ==
  /\ call.op = "SQLGetData"
  /\ call.target_type \in TextTypes
  /\ call.gv.tag = "Some"
  /\ call.gv.val.type \notin {"Null", "Undefined"}
  /\ ~call.out_null
  /\ ~call.len_null
  /\ call.buffer_len >= 1

Delivered == Flatten(pieces.chunks)

DeliveredBefore == Flatten(Take(pieces.chunks, Len(pieces.chunks) - 1))

\* C1 (round trip on pieces): the chunks that repeated identical calls on one
\* text or binary column hand over, put end to end, are a prefix of the value
\* one call with a large enough buffer returns; once the whole value has been
\* handed over the next call answers NO_DATA and hands over nothing.
C1_RoundTripOnPieces ==
  TextGet =>
    /\ IsPrefix(Delivered, WholeValue(call.gv.val, call.target_type))
    /\ (call.ret = "NO_DATA" =>
          /\ DeliveredBefore = WholeValue(call.gv.val, call.target_type)
          /\ call.written = <<>>)
    /\ (Len(pieces.rets) >= 2
        /\ DeliveredBefore = WholeValue(call.gv.val, call.target_type)
          => call.ret = "NO_DATA")

\* C2 (remaining length): every call of the loop that returns data stores in
\* the length slot the units that remained before the call, so the slot falls
\* by the units copied from one call to the next, and NO_DATA comes only when
\* nothing remains.
C2_RemainingLength ==
  TextGet =>
    /\ (call.ret \in {"SUCCESS", "SUCCESS_WITH_INFO"} =>
          call.ind = Len(WholeValue(call.gv.val, call.target_type)) - Len(DeliveredBefore))
    /\ (call.ret = "NO_DATA" =>
          DeliveredBefore = WholeValue(call.gv.val, call.target_type))

\* the last call read a column whose value is Null or Undefined, or whose
\* field the row does not have
NullGet ==
  /\ call.op = "SQLGetData"
  /\ call.target_type \in CDataTypes \ {"Guid"}
  /\ \/ call.gv.tag = "None"
     \/ call.gv.tag = "Some" /\ call.gv.val.type \in {"Null", "Undefined"}
  /\ ~call.out_null
  /\ ~call.len_null

\* C3 (NULL idempotence): the first read of a NULL column, for any target
\* type, returns SUCCESS with NULL_DATA in the length slot and writes nothing;
\* the second identical read returns NO_DATA.
C3_NullThenNoData ==
  NullGet =>
    /\ (Len(pieces.rets) = 1 =>
          /\ call.ret = "SUCCESS"
          /\ call.ind = NULL_DATA
          /\ call.written = <<>>
          /\ call.fixed = <<>>)
    /\ (Len(pieces.rets) = 2 => call.ret = "NO_DATA")

\* ---------------------------------------------------- the cursor's claims
\* the cursor was executed once at most, before any SQLFetch, and its driver
\* never failed
FreshCursor == faults = 0 /\ executes <= 1 /\ \A k \in DOMAIN answers : answers[k] # "err"

\* C4 (row iteration): over a result set of N rows exactly N advances answer
\* "row", every later one answers "no row", and after the k-th advance
\* get_value reads the k-th row.
C4_RowIteration ==
  FreshCursor =>
    /\ \A k \in DOMAIN answers :
         answers[k] = IF k <= Len(resultset) THEN "row" ELSE "norow"
    /\ (call.op = "get_value" /\ Len(answers) \in 1..Len(resultset) /\ InRange(call.col)
          => LET md == resultset_metadata[call.col]
                 row == resultset[Len(answers)]
             IN (md.table_name \in DOMAIN row /\ row[md.table_name].isdoc
                 /\ md.col_name \in DOMAIN row[md.table_name].fields)
                  => call.gv = OkSome(row[md.table_name].fields[md.col_name]))

\* no advance was made yet, or the last one answered "no row" or failed
NoRowCurrent == answers = <<>> \/ answers[Len(answers)] \in {"norow", "err"}

\* C5 (get_value only while a row is current): before the first advance,
\* after an advance that answered "no row" and after a failed advance
\* get_value fails with InvalidCursorState for every column number; it never
\* returns a value and never panics.
C5_NoRowNoValue ==
  (call.op = "get_value" /\ NoRowCurrent) => call.gv = Err("InvalidCursorState", 0)

\* the cursor holds a row: query.rs has Some(current), mock_query.rs has an
\* index inside the vector
RowCurrent == IF impl = "query" THEN current.some ELSE mock_current < Len(resultset)

CurrentRow == IF impl = "query" THEN current.doc ELSE resultset[mock_current + 1]

\* the row has the field of the metadata entry under the entry's table
HasField(row, md) ==
  /\ md.table_name \in DOMAIN row
  /\ row[md.table_name].isdoc
  /\ md.col_name \in DOMAIN row[md.table_name].fields

\* C6 (column addressing): with a row current, get_value(i) for 1 <= i <= n
\* reads the field named by metadata entry i - 1 (sorted by table and column
\* name) under the top-level key of that entry's table, and get_value(i) for
\* i = 0 or i > n fails with ColIndexOutOfBounds carrying i.
C6_ColumnAddressing ==
  (call.op = "get_value" /\ RowCurrent) =>
    IF call.col >= 1 /\ call.col <= Len(resultset_metadata)
      THEN LET md == resultset_metadata[call.col]
           IN /\ call.gv.tag # "ColIndexOutOfBounds"
              /\ (HasField(CurrentRow, md) =>
                    call.gv = OkSome(CurrentRow[md.table_name].fields[md.col_name]))
              /\ (call.gv.tag = "Some" => HasField(CurrentRow, md))
      ELSE call.gv = Err("ColIndexOutOfBounds", call.col)

\* get_value(2) read test.b, the field of the second metadata entry, of the
\* current row
C6_Witness ==
  /\ call.op = "get_value"
  /\ impl = "query"
  /\ RowCurrent
  /\ call.col = 2
  /\ call.gv = OkSome(BsonString(Str(<<"c">>)))

\* C7 as stated (a missing field is NULL): with a row current and a column
\* number in range, get_value is Ok(None) whenever the (table, field) path is
\* absent from the row, and never an error.
C7_AbsentPathIsNone ==
  (call.op = "get_value" /\ RowCurrent /\ InRange(call.col)
   /\ ~HasField(CurrentRow, resultset_metadata[call.col]))
    => call.gv = OkNone

\* C7 (amended): with a row current and a column number in range, get_value
\* is Ok(None) when the row has the table's sub-document without the field,
\* and fails with ValueAccess when the row has no sub-document under the
\* table's key.
C7_AbsentFieldIsNone ==
  (call.op = "get_value" /\ RowCurrent /\ InRange(call.col)
   /\ ~HasField(CurrentRow, resultset_metadata[call.col]))
    => LET md == resultset_metadata[call.col]
       IN IF md.table_name \in DOMAIN CurrentRow /\ CurrentRow[md.table_name].isdoc
            THEN call.gv = OkNone
            ELSE call.gv.tag = "ValueAccess"

\* get_value read a field that the current row's sub-document does not have
C7_Witness ==
  /\ call.op = "get_value"
  /\ RowCurrent
  /\ call.col = 9
  /\ "test" \in DOMAIN CurrentRow
  /\ CurrentRow["test"].isdoc
  /\ "string" \notin DOMAIN CurrentRow["test"].fields
  /\ call.gv = OkNone

\* ------------------------------------------------- rows, errors and sizes
\* the last SQLFetch moved the cursor to a row, and the row it moved to
Advanced1 == answers # <<>> /\ answers[Len(answers)] = "row"

AdvancedTo ==
  IF impl = "query" THEN resultset[resultset_cursor.pos] ELSE resultset[mock_current + 1]

ReportedSize ==
  [Bit |-> 1, SLong |-> 4, SBigInt |-> 8, Float |-> 4, Double |-> 8, TimeStamp |-> 16,
   Date |-> 6, Time |-> 6]

\* C10 (fixed-size targets report their size): a successful write of a value
\* other than NULL to a Bit, 32-bit integer, 64-bit integer, Float, Double,
\* TimeStamp, Date or Time target leaves 1, 4, 8, 4, 8, 16, 6 or 6 in the
\* length slot, whatever the buffer length passed.
C10_FixedSizeReported ==
  (/\ call.op = "SQLGetData"
   /\ call.target_type \in DOMAIN ReportedSize
   /\ call.gv.tag = "Some"
   /\ call.gv.val.type \notin {"Null", "Undefined"}
   /\ ~call.out_null
   /\ ~call.len_null
   /\ call.ret = "SUCCESS")
    => call.ind = ReportedSize[call.target_type]

\* --------------------------------------------------- the coercions' claims
\* C11 (fixed-size values are drained by one read): after a get with a
\* fixed-size target returned SUCCESS, the next get on the same column of the
\* same row with the same target returns NO_DATA.
C11_FixedDrainedByOneRead ==
  (/\ call.op = "SQLGetData"
   /\ call.target_type \in FixedTypes
   /\ Len(pieces.rets) = 2
   /\ pieces.rets[1] = "SUCCESS")
    => call.ret = "NO_DATA"

\* the last call handed a value other than NULL to format_and_return_bson
Formatted ==
  /\ call.op = "format_and_return_bson"
  /\ call.gv.tag = "Some"
  /\ call.gv.val.type \notin {"Null", "Undefined"}

NumericTargets == {"Bit", "SLong", "ULong", "SBigInt", "UBigInt", "Float", "Double"}

IntegerTargets == {"SLong", "ULong", "SBigInt", "UBigInt"}

\* the variants no numeric, date or binary target is to accept
Unconvertible ==
  {"Array", "Document", "Binary", "ObjectId", "RegularExpression", "JavaScriptCode",
   "JavaScriptCodeWithScope", "MaxKey", "MinKey"}

\* C12 (unsupported sources for numeric targets are errors): for a Bit,
\* integer, Float or Double target a source of type Array, Document, Binary,
\* ObjectId, Regex, JavaScript, MaxKey or MinKey returns ERROR with an
\* UnsupportedConversion diagnostic and writes no value.
C12_UnsupportedSourceIsError ==
  (Formatted /\ call.target_type \in NumericTargets /\ call.gv.val.type \in Unconvertible)
    => /\ call.ret = "ERROR"
       /\ call.diag = "UnsupportedConversion"
       /\ call.fixed = <<>>

\* C13 (negative to unsigned is a hard failure): an unsigned integer target
\* on a negative Int32 or Int64 returns ERROR with an IntegralOverflow
\* diagnostic and writes no value.
C13_NegativeToUnsignedFails ==
  (/\ Formatted
   /\ call.target_type \in {"UBigInt", "ULong"}
   /\ call.gv.val.type \in {"Int32", "Int64"}
   /\ call.gv.val.n < 0)
    => /\ call.ret = "ERROR"
       /\ call.diag = "IntegralOverflow"
       /\ call.fixed = <<>>

\* C14 (Double to integer narrowing warns): an integer or Bit target on a
\* Double with a fractional part writes the value truncated toward zero,
\* returns SUCCESS_WITH_INFO and records PrecisionLoss; on a Double without
\* a fractional part it returns SUCCESS.
C14_NarrowingWarns ==
  (/\ Formatted
   /\ call.target_type \in IntegerTargets \cup {"Bit"}
   /\ call.gv.val.type = "Double")
    => LET tenths == call.gv.val.n
           whole == IF tenths < 0 THEN -((-tenths) \div 10) ELSE tenths \div 10
       IN /\ (call.target_type \in IntegerTargets => call.fixed = <<whole>>)
          /\ call.fixed # <<>>
          /\ IF tenths % 10 # 0
               THEN call.ret = "SUCCESS_WITH_INFO" /\ call.diag = "PrecisionLoss"
               ELSE call.ret = "SUCCESS"

\* C15 (unparsable numeric strings fail): an integer or floating-point
\* target on a String that does not parse as a number returns ERROR with an
\* InvalidNumericString diagnostic and delivers no value.
C15_UnparsableStringFails ==
  (/\ Formatted
   /\ call.gv.val.type = "String"
   /\ \/ call.target_type \in IntegerTargets /\ ~IsIntegerText(call.gv.val.s)
      \/ call.target_type \in {"Float", "Double"} /\ ~IsFloatText(call.gv.val.s))
    => /\ call.ret = "ERROR"
       /\ call.diag = "InvalidNumericString"
       /\ call.fixed = <<>>

\* C16 (date and time targets accept only DateTime): for a TimeStamp, Date
\* or Time target a DateTime converts to its UTC calendar fields, and every
\* other source that is not NULL returns ERROR and writes nothing, the epoch
\* in particular.
C16_OnlyDateTimeConverts ==
  (Formatted /\ call.target_type \in {"TimeStamp", "Date", "Time"})
    => IF call.gv.val.type = "DateTime"
         THEN LET dt == Calendar(call.gv.val.n)
              IN /\ call.ret \in {"SUCCESS", "SUCCESS_WITH_INFO"}
                 /\ call.fixed =
                      CASE call.target_type = "Date" -> <<dt.year, dt.month, dt.day>>
                        [] call.target_type = "Time" -> <<dt.hour, dt.minute, dt.second>>
                        [] OTHER -> <<dt.year, dt.month, dt.day, dt.hour, dt.minute,
                                      dt.second, dt.millisecond>>
         ELSE call.ret = "ERROR" /\ call.fixed = <<>>

\* C17 (timestamp truncation warns): a Date target on a DateTime whose time
\* of day is not zero, and a Time target, which drops the date, write the
\* fields they keep, return SUCCESS_WITH_INFO and record PrecisionLoss;
\* neither returns ERROR nor plain SUCCESS.
C17_TruncationWarns ==
  (/\ Formatted
   /\ call.gv.val.type = "DateTime"
   /\ \/ call.target_type = "Date" /\ call.gv.val.n % 86400000 # 0
      \/ call.target_type = "Time")
    => /\ call.fixed # <<>>
       /\ call.ret = "SUCCESS_WITH_INFO"
       /\ call.diag = "PrecisionLoss"

\* the little-endian two's-complement bytes of an integer
RECURSIVE LittleEndian(_, _)
LittleEndian(n, width) ==
  IF width = 0 THEN <<>>
  ELSE <<n % 256>> \o LittleEndian((n - (n % 256)) \div 256, width - 1)

\* C18 (binary target conversions): a Binary target delivers the UTF-8 bytes
\* of a String and the little-endian bytes of a Boolean, Int32 or Int64 (of
\* a Double its native bytes, not its text), and returns ERROR with an
\* UnsupportedConversion diagnostic for Array, Document, ObjectId, Regex,
\* JavaScript, MaxKey and MinKey; it never delivers extended-JSON text.
C18_BinaryTarget ==
  (Formatted /\ call.target_type = "Binary" /\ call.buffer_len = WholeBuf)
    => LET v == call.gv.val
       IN CASE v.type = "String" -> Chunk(call.written) = v.s
            [] v.type = "Boolean" -> Chunk(call.written) = <<v.n>>
            [] v.type = "Int32" -> Chunk(call.written) = LittleEndian(v.n, 4)
            [] v.type = "Int64" -> Chunk(call.written) = LittleEndian(v.n, 8)
            [] v.type = "Double" -> Chunk(call.written) # into_canonical_extjson(v)
            [] v.type \in Unconvertible \ {"Binary"} ->
                 /\ call.ret = "ERROR"
                 /\ call.diag = "UnsupportedConversion"
                 /\ call.written = <<>>
            [] OTHER -> TRUE

\* the canonical extended JSON of the values the model formats, letter by
\* letter
CanonicalText(v) ==
  CASE v = BsonMaxKey ->
         Str(<<"{", "\"", "$", "m", "a", "x", "K", "e", "y",
               "\"", ":", "1", "}">>)
    [] v = BsonMinKey ->
         Str(<<"{", "\"", "$", "m", "i", "n", "K", "e", "y",
               "\"", ":", "1", "}">>)
    [] v.type = "ObjectId" ->
         Str(<<"{", "\"", "$", "o", "i", "d", "\"", ":", "\"",
               "6", "3", "4", "4", "8", "d", "f", "e", "d",
               "3", "8", "4", "2", "7", "a", "3", "5", "d",
               "5", "3", "4", "e", "4", "0", "\"", "}">>)
    [] v = BsonArray(<<1, 2, 3>>) ->
         Str(<<"[", "{", "\"", "$", "n", "u", "m", "b", "e",
               "r", "I", "n", "t", "\"", ":", "\"", "1", "\"",
               "}", ",", "{", "\"", "$", "n", "u", "m", "b",
               "e", "r", "I", "n", "t", "\"", ":", "\"", "2",
               "\"", "}", ",", "{", "\"", "$", "n", "u", "m",
               "b", "e", "r", "I", "n", "t", "\"", ":", "\"",
               "3", "\"", "}", "]">>)
    [] v = BsonDateTime(129609000) ->
         Str(<<"{", "\"", "$", "d", "a", "t", "e", "\"", ":",
               "{", "\"", "$", "n", "u", "m", "b", "e", "r",
               "L", "o", "n", "g", "\"", ":", "\"", "1", "2",
               "9", "6", "0", "9", "0", "0", "0", "\"", "}",
               "}">>)
    [] OTHER -> <<>>

HasCanonicalText(v) == CanonicalText(v) # <<>>

\* C19 (text coercion is total): for a Char or WChar target to_string is
\* defined for every variant and never fails: a String gives its contents,
\* a Boolean "true" or "false", and every non-scalar or extended variant its
\* canonical extended JSON.
C19_TextCoercionTotal ==
  (Formatted /\ call.target_type \in {"Char", "WChar"} /\ call.buffer_len = WholeBuf)
    => LET v == call.gv.val
       IN /\ v.type \in to_string_arms
          /\ call.ret = "SUCCESS"
          /\ (v.type = "String" => Chunk(call.written) = WholeValue(v, call.target_type))
          /\ (v.type = "Boolean" =>
                Chunk(call.written) = IF v.n = 1 THEN Str(<<"t", "r", "u", "e">>)
                                      ELSE Str(<<"f", "a", "l", "s", "e">>))
          /\ (HasCanonicalText(v) => Chunk(call.written) = CanonicalText(v))

\* C20 (extended-JSON exactness): the text delivered for ObjectId, MaxKey,
\* MinKey, an array of Int32 and DateTime is its canonical extended JSON,
\* character for character and with no whitespace, cut to the buffer.
C20_CanonicalExtendedJson ==
  (/\ Formatted
   /\ call.target_type \in {"Char", "WChar"}
   /\ call.buffer_len >= 1
   /\ HasCanonicalText(call.gv.val))
    => LET text == CanonicalText(call.gv.val)
       IN Chunk(call.written) = Take(text, Min(Len(text), call.buffer_len - 1))

\* the ObjectId was read whole as {"$oid":"63448dfed38427a35d534e40"}
C20_Witness ==
  /\ Formatted
  /\ call.target_type = "Char"
  /\ call.buffer_len = WholeBuf
  /\ call.gv.val.type = "ObjectId"
  /\ call.ret = "SUCCESS"
  /\ Len(call.written) = 36
  /\ Chunk(call.written) = CanonicalText(call.gv.val)

\* ------------------------------------------------- the buffers' claims
\* C24 (ColumnarBuffer::new rejects repeated column indices): new panics
\* with 'Column indices must be unique.' when an index occurs more than once
\* among its pairs; a buffer that is constructed has pairwise distinct
\* indices, no valid rows, and the least capacity of its columns as its row
\* capacity, 0 when it has no columns.
C24_UniqueColumnIndices ==
  columnar.op = "new" =>
    LET pairs == columnar.arg
        repeated == \E i, j \in 1..Len(pairs) : i # j /\ pairs[i].col_index = pairs[j].col_index
    IN IF repeated
         THEN columnar.panic = "Column indices must be unique."
         ELSE /\ columnar.panic = ""
              /\ columnar.columns = pairs
              /\ \A i, j \in 1..Len(columnar.columns) :
                   i # j => columnar.columns[i].col_index # columnar.columns[j].col_index
              /\ columnar.num_rows = 0
              /\ \A i \in 1..Len(pairs) : columnar.row_capacity <= pairs[i].capacity
              /\ (pairs # <<>> =>
                    \E i \in 1..Len(pairs) : columnar.row_capacity = pairs[i].capacity)
              /\ (pairs = <<>> => columnar.row_capacity = 0)

\* new was handed the indices 1, 2, 1 and panicked
C24_Witness ==
  /\ columnar.op = "new"
  /\ Len(columnar.arg) = 3
  /\ columnar.arg[1].col_index = 1
  /\ columnar.arg[2].col_index = 2
  /\ columnar.arg[3].col_index = 1
  /\ columnar.panic = "Column indices must be unique."

\* the text a Char, Binary or WChar target is handed, in the target's units
MessageUnits ==
  IF call.target_type = "WChar" THEN encode_utf16(to_string(call.gv.val))
  ELSE bytes(to_string(call.gv.val))

\* a call that handed a text to a destination that is not null
TextWrite ==
  /\ call.op = "format_and_return_bson"
  /\ call.target_type \in TextTypes
  /\ call.ret # "SIGSEGV"
  /\ ~call.out_null

\* C21 (zero-capacity text write): a text write into a destination of
\* capacity 0 with a length slot returns SUCCESS_WITH_INFO, writes nothing,
\* and sets the length slot to the full length the message requires.
C21_ZeroCapacityReportsLength ==
  (TextWrite /\ call.buffer_len = 0 /\ ~call.len_null)
    => /\ call.ret = "SUCCESS_WITH_INFO"
       /\ call.written = <<>>
       /\ call.ind = Len(MessageUnits)

\* a call that was handed a null destination
NullDestination ==
  /\ call.op = "format_and_return_bson"
  /\ call.out_null

\* the length a null destination should be answered with: the size of the
\* type, the bytes of the message, or its UTF-16 units
WouldBeLength ==
  IF call.target_type \in TextTypes THEN Len(MessageUnits) ELSE SizeOf(call.target_type)

\* C22 (null destination still reports the length): with a null destination
\* and a length slot, the writers write nothing, store the would-be length
\* (the type's size, the message's byte length, or its UTF-16 unit count) in
\* the slot and return SUCCESS_WITH_INFO; with the length slot null as well
\* nothing is dereferenced.
C22_NullDestinationReportsLength ==
  NullDestination
    => /\ call.ret = "SUCCESS_WITH_INFO"
       /\ call.written = <<>>
       /\ call.fixed = <<>>
       /\ call.ind = IF call.len_null THEN call.ind0 ELSE WouldBeLength

\* C23 (missing null indicator): a NULL value read with a null indicator
\* pointer returns SUCCESS_WITH_INFO, records NullIndicatorMissing, and does
\* not dereference the null pointer.
C23_NullIndicatorMissing ==
  (/\ call.op = "format_and_return_bson"
   /\ call.gv.val.type = "Null"
   /\ call.len_null)
    => /\ call.ret = "SUCCESS_WITH_INFO"
       /\ call.diag = "NullIndicatorMissing"
       /\ call.ind = call.ind0

\* C25 (truncation status is exact): with a destination of capacity 1 or
\* more, the text writers return SUCCESS exactly when every unit of the
\* message was copied and SUCCESS_WITH_INFO whenever fewer were.
C25_TruncationStatusExact ==
  (TextWrite /\ call.buffer_len >= 1)
    => /\ call.ret \in {"SUCCESS", "SUCCESS_WITH_INFO"}
       /\ call.ret = "SUCCESS" <=> Chunk(call.written) = MessageUnits
       /\ Len(Chunk(call.written)) < Len(MessageUnits) => call.ret = "SUCCESS_WITH_INFO"

\* the SmallInt the writer stored in the length slot
StoredLength == call.ind % SMALLINT_MOD

ReadOf(col, target_type, buffer_len) ==
  GetDataOutcomes(get_value(col), target_type, FALSE, buffer_len, FALSE, 0)

Exhausted == answers # <<>> /\ answers[Len(answers)] = "norow"

\* C28 (Exhausted is absorbing): on a cursor executed once whose driver does
\* not fail, once an advance has answered "no row" every later advance
\* answers "no row", never "row" and never with a panic; the current row
\* stays absent, and get_value keeps failing with an error.
C28_ExhaustedIsAbsorbing ==
  (faults = 0 /\ executes <= 1)
    => /\ \A j, k \in DOMAIN answers :
            (j < k /\ answers[j] = "norow") => answers[k] = "norow"
       /\ Exhausted
            => /\ impl = "query" => ~current.some
               /\ call.op = "get_value"
                    => call.gv.tag \in {"InvalidCursorState", "ColIndexOutOfBounds",
                                        "ValueAccess"}

\* a result of get_value that is an error or a panic, not Ok
Failing(gv) == gv.tag \notin {"Some", "None"}

\* C29 (the mock cursor refines the real cursor): over the same documents
\* and metadata, after the same calls, next gives the same has-row answer on
\* both, get_value gives the same value for the same column, and get_value
\* fails on the one exactly when it fails on the other.
C29_MockRefinesQuery ==
  /\ twin.op = "next" => twin.answer = answers[Len(answers)]
  /\ twin.op = "get_value"
       => /\ Failing(twin.gv) <=> Failing(call.gv)
          /\ ~Failing(call.gv) => twin.gv = call.gv

\* the i64 of these words lies in -2^31 .. 2^31 - 1: the high word is the
\* sign extension of the low one
InI32(words) ==
  \/ words[1] = 0 /\ words[2] < HALFWORD \div 2
  \/ words[1] = -1 /\ words[2] >= HALFWORD \div 2

\* C30 (integer narrowing never silently changes the number): for the SLong
\* target an Int64, or the milliseconds of a DateTime, outside -2^31 ..
\* 2^31 - 1 is answered with ERROR or SUCCESS_WITH_INFO, not delivered as its
\* low 32 bits; whenever SUCCESS is returned the value written is the
\* source's.
C30_NarrowingNeverSilent ==
  (/\ Formatted
   /\ call.target_type = "SLong"
   /\ call.gv.val.type \in {"Int64", "DateTime"})
    => LET words == Words(call.gv.val)
       IN /\ ~InI32(words) => call.ret \in {"ERROR", "SUCCESS_WITH_INFO"}
          /\ call.ret = "SUCCESS" => InI32(words) /\ call.fixed = <<AsI32(words)>>

====
